---- MODULE Spec2Model ----
(***************************************************************************)
(* Model of elasticsearch_async/helpers.py: the asynchronous generator     *)
(* scan(client, query, scroll, raise_on_error, preserve_order, size,       *)
(* request_timeout, clear_scroll).                                         *)
(*                                                                         *)
(* One scan session is modelled.  The generator body runs atomically from  *)
(* one suspension point (an await or a yield) to the next, as it does on   *)
(* an asyncio event loop.  The consumer pulls (__anext__), closes          *)
(* (aclose) or cancels; the client answers search and scroll requests      *)
(* with a response or with an error.                                       *)
(***************************************************************************)
EXTENDS Integers, Sequences, FiniteSets, TLC

VARIABLES
    raise_on_error,  \* argument of scan
    preserve_order,  \* argument of scan
    clear_scroll,    \* argument of scan
    caller,          \* the caller's query argument: None or a reference
    heap,            \* the dict objects: reference -> dict
    query,           \* local name query: None or a reference
    resp,            \* local name resp
    scroll_id,       \* local name scroll_id
    first_run,       \* local name first_run (line 57), read at line 60 only
    idx,             \* hits of resp the for loop has yielded
    pc,              \* where the generator is suspended
    status,          \* how the generator ended, as its caller sees it
    raised,          \* the exception delivered to the caller
    calls,           \* the calls made on client, in order
    emitted,         \* the hits yielded, in order
    received,        \* the responses received, in order
    log,             \* the records passed to logger.warning
    clearState,      \* the clear_scroll request, which nobody awaits
    lastHeld,        \* the last identifier scroll_id was bound to
    clientError,     \* the error client.search or client.scroll raised
    given,           \* the caller's query as it was when scan was called
    inflight         \* the client requests issued and not yet answered

vars == <<raise_on_error, preserve_order, clear_scroll, caller, heap, query,
          resp, scroll_id, first_run, idx, pc, status, raised, calls,
          emitted, received, log, clearState, lastHeld, clientError, given,
          inflight>>

config == <<raise_on_error, preserve_order, clear_scroll, caller, given>>

----------------------------------------------------------------------------
(* Bounds of the model *)

\* hits in one response
MaxHits == 2
\* scroll responses the server's snapshot can feed; the last one is empty
MaxScrolls == 2

----------------------------------------------------------------------------
(* Values *)

None == "None"
Unbound == "Unbound"

\* the names bound in the module's global namespace (helpers.py binds no
\* logger and no ScanError)
ModuleGlobals == {"asyncio", "ensure_future", "scan"}

ScrollIds == {"s1", "s2"}
FailedCounts == {0, 1}
TransportErrors == {"ConnectionError", "TransportError"}
ClearResults == {"ok", "ignored_404", "error"}

\* Python truthiness of a scroll identifier (None and '' are falsy)
Truthy(x) == x # None /\ x # Unbound /\ x # ""

EmptyDict == <<>>
SetItem(d, k, v) == [x \in (DOMAIN d) \cup {k} |-> IF x = k THEN v ELSE d[x]]

\* the query documents a caller passes
CallerQueries ==
    { EmptyDict,
      "query" :> "match_all",
      ("query" :> "match_all") @@ ("sort" :> "date") }

\* the hits of a response are opaque, pairwise different documents
HitsOf(page, n) == [i \in 1..n |-> <<page, i>>]

\* the responses the server can give as its page-th response of the session
Responses(page) ==
    { [sid |-> s, hits |-> HitsOf(page, n), failed |-> f] :
        s \in ScrollIds \cup {None},
        n \in (IF page > MaxScrolls THEN {0} ELSE 0..MaxHits),
        f \in FailedCounts }

NoResp == [sid |-> None, hits |-> <<>>, failed |-> 0]
NoExc == [exc |-> "none", arg |-> None]
Exc(e, a) == [exc |-> e, arg |-> a]

Deref(h, ref) == IF ref = None THEN EmptyDict ELSE h[ref]
Call(op, ref, body, sid) == [op |-> op, ref |-> ref, body |-> body, scroll_id |-> sid]

CallsOf(op) == SelectSeq(calls, LAMBDA c : c.op = op)

----------------------------------------------------------------------------
Init ==
    /\ raise_on_error \in BOOLEAN
    /\ preserve_order \in BOOLEAN
    /\ clear_scroll \in BOOLEAN
    /\ \/ caller = None /\ heap = [o \in {} |-> EmptyDict] /\ given = EmptyDict
       \/ \E d \in CallerQueries :
            caller = "caller" /\ heap = ("caller" :> d) /\ given = d
    /\ query = caller
    /\ resp = NoResp
    /\ scroll_id = Unbound
    /\ first_run = TRUE
    /\ idx = 0
    /\ pc = "start"
    /\ status = "active"
    /\ raised = NoExc
    /\ calls = <<>>
    /\ emitted = <<>>
    /\ received = <<>>
    /\ log = <<>>
    /\ clearState = "none"
    /\ lastHeld = None
    /\ clientError = None
    /\ inflight = {}

TrackHeld == lastHeld' = IF Truthy(scroll_id') THEN scroll_id' ELSE lastHeld

\* the requests outstanding after a step: those that were, less the ones the
\* step saw answered (or withdrawn), plus the ones the step issued
TrackRequests(answered) ==
    inflight' = (inflight \ answered)
                  \cup {calls'[k].op : k \in (Len(calls) + 1)..Len(calls')}

----------------------------------------------------------------------------
\* PrepareQuery without the copy: the sort entry is written into the
\* caller's dict
PrepareQueryInPlace ==
    IF ~preserve_order
    THEN IF query # None /\ DOMAIN heap[query] # {}
         THEN /\ heap' = [heap EXCEPT ![query] = SetItem(@, "sort", "_doc")]
              /\ query' = query
         ELSE /\ query' = "local"
              /\ heap' = heap @@ ("local" :> SetItem(EmptyDict, "sort", "_doc"))
    ELSE UNCHANGED <<query, heap>>

(* Lines 45-47: the body for client.search *)
PrepareQuery ==
    IF ~preserve_order
    THEN LET src == IF query # None /\ DOMAIN heap[query] # {}
                    THEN heap[query] ELSE EmptyDict
         IN /\ query' = "local"
            /\ heap' = heap @@ ("local" :> SetItem(src, "sort", "_doc"))
    ELSE UNCHANGED <<query, heap>>

\* Finally as an else clause: the clear_scroll call only after a normal end
FinallyOnlyOnReturn(sid, st, exc) ==
    /\ scroll_id' = sid
    /\ IF Truthy(sid) /\ clear_scroll /\ st = "returned"
       THEN /\ calls' = Append(calls, Call("clear_scroll", None, EmptyDict, sid))
            /\ clearState' = "pending"
       ELSE UNCHANGED <<calls, clearState>>
    /\ pc' = "done"
    /\ status' = st
    /\ raised' = exc
    /\ UNCHANGED <<emitted, idx>>

\* Finally without the test of the clear_scroll argument
FinallyAlwaysClear(sid, st, exc) ==
    /\ scroll_id' = sid
    /\ IF Truthy(sid)
       THEN /\ calls' = Append(calls, Call("clear_scroll", None, EmptyDict, sid))
            /\ clearState' = "pending"
       ELSE UNCHANGED <<calls, clearState>>
    /\ pc' = "done"
    /\ status' = st
    /\ raised' = exc
    /\ UNCHANGED <<emitted, idx>>

(* Lines 85-87: the finally block, then the generator ends with outcome    *)
(* st, exc.  client.clear_scroll is called and its result dropped.         *)
Finally(sid, st, exc) ==
    /\ scroll_id' = sid
    /\ IF Truthy(sid) /\ clear_scroll
       THEN /\ calls' = Append(calls, Call("clear_scroll", None, EmptyDict, sid))
            /\ clearState' = "pending"
       ELSE UNCHANGED <<calls, clearState>>
    /\ pc' = "done"
    /\ status' = st
    /\ raised' = exc
    /\ UNCHANGED <<emitted, idx>>

\* Advance that keeps the identifier held when the response carries none
AdvanceKeepLastId(r) ==
    IF r.sid = None \/ Len(r.hits) = 0
    THEN Finally(IF r.sid = None THEN scroll_id ELSE r.sid, "returned", NoExc)
    ELSE /\ scroll_id' = r.sid
         /\ calls' = Append(calls, Call("scroll", None, EmptyDict, r.sid))
         /\ pc' = "await_scroll"
         /\ UNCHANGED <<emitted, idx, status, raised, clearState>>

\* Advance without line 81: the scroll call repeats the identifier held
AdvanceStaleId(r) ==
    IF r.sid = None \/ Len(r.hits) = 0
    THEN Finally(r.sid, "returned", NoExc)
    ELSE /\ scroll_id' = scroll_id
         /\ calls' = Append(calls, Call("scroll", None, EmptyDict, scroll_id))
         /\ pc' = "await_scroll"
         /\ UNCHANGED <<emitted, idx, status, raised, clearState>>

\* Advance with client.scroll not awaited: resp is the pending request,
\* resp['hits'] raises TypeError and the finally block runs at once
AdvanceNoAwait(r) ==
    IF r.sid = None \/ Len(r.hits) = 0
    THEN Finally(r.sid, "returned", NoExc)
    ELSE /\ scroll_id' = r.sid
         /\ IF clear_scroll
            THEN /\ calls' = calls \o <<Call("scroll", None, EmptyDict, r.sid),
                                        Call("clear_scroll", None, EmptyDict, r.sid)>>
                 /\ clearState' = "pending"
            ELSE /\ calls' = Append(calls, Call("scroll", None, EmptyDict, r.sid))
                 /\ clearState' = clearState
         /\ pc' = "done"
         /\ status' = "raised"
         /\ raised' = Exc("TypeError", "resp")
         /\ UNCHANGED <<emitted, idx>>

\* Advance without the test of the hit list at line 83
AdvanceNoBreakOnEmpty(r) ==
    IF r.sid = None
    THEN Finally(r.sid, "returned", NoExc)
    ELSE /\ scroll_id' = r.sid
         /\ calls' = Append(calls, Call("scroll", None, EmptyDict, r.sid))
         /\ pc' = "await_scroll"
         /\ UNCHANGED <<emitted, idx, status, raised, clearState>>

(* Lines 81-84 and 58-63: bind scroll_id to the response's identifier,     *)
(* leave the loop or issue the next scroll call.                           *)
Advance(r) ==
    IF r.sid = None \/ Len(r.hits) = 0
    THEN Finally(r.sid, "returned", NoExc)
    ELSE /\ scroll_id' = r.sid
         /\ calls' = Append(calls, Call("scroll", None, EmptyDict, r.sid))
         /\ pc' = "await_scroll"
         /\ UNCHANGED <<emitted, idx, status, raised, clearState>>

(* Lines 68-79: the shard check after a batch *)
ShardCheck(r, sid) ==
    IF r.failed # 0
    THEN IF "logger" \notin ModuleGlobals
         THEN /\ log' = log
              /\ Finally(sid, "raised", Exc("NameError", "logger"))
         ELSE /\ log' = Append(log, r.failed)
              /\ IF raise_on_error
                 THEN IF "ScanError" \notin ModuleGlobals
                      THEN Finally(sid, "raised", Exc("NameError", "ScanError"))
                      ELSE Finally(sid, "raised", Exc("ScanError", sid))
                 ELSE Advance(r)
    ELSE /\ log' = log
         /\ Advance(r)

\* Iterate that stops one hit short of the end of the batch
IterateOffByOne(r, sid, i) ==
    IF i + 1 < Len(r.hits)
    THEN /\ emitted' = Append(emitted, r.hits[i + 1])
         /\ idx' = i + 1
         /\ pc' = "yield"
         /\ scroll_id' = sid
         /\ UNCHANGED <<calls, status, raised, log, clearState>>
    ELSE /\ ShardCheck(r, sid)

\* Iterate that walks the hit list from its end
IterateReversed(r, sid, i) ==
    IF i < Len(r.hits)
    THEN /\ emitted' = Append(emitted, r.hits[Len(r.hits) - i])
         /\ idx' = i + 1
         /\ pc' = "yield"
         /\ scroll_id' = sid
         /\ UNCHANGED <<calls, status, raised, log, clearState>>
    ELSE /\ ShardCheck(r, sid)

(* Lines 65-66: the for loop over resp['hits']['hits'], i hits yielded *)
Iterate(r, sid, i) ==
    IF i < Len(r.hits)
    THEN /\ emitted' = Append(emitted, r.hits[i + 1])
         /\ idx' = i + 1
         /\ pc' = "yield"
         /\ scroll_id' = sid
         /\ UNCHANGED <<calls, status, raised, log, clearState>>
    ELSE /\ ShardCheck(r, sid)

----------------------------------------------------------------------------
(* The consumer's first __anext__: lines 45-50 up to the await *)
AnextStart ==
    /\ pc = "start"
    /\ PrepareQuery
    /\ calls' = Append(calls, Call("search", query', Deref(heap', query'), None))
    /\ pc' = "await_search"
    /\ UNCHANGED <<config, resp, scroll_id, first_run, idx, status, raised,
                   emitted, received, log, clearState, lastHeld, clientError>>
    /\ TrackRequests({})

\* EnterLoop without the test of lines 53-54
EnterLoopNoCheck(r) ==
    /\ first_run' = FALSE
    /\ Iterate(r, r.sid, 0)

(* Lines 52-54: the first response's identifier decides whether to go on *)
EnterLoop(r) ==
    IF r.sid = None
    THEN /\ scroll_id' = None
         /\ pc' = "done"
         /\ status' = "returned"
         /\ UNCHANGED <<first_run, idx, raised, calls, emitted, log, clearState>>
    ELSE /\ first_run' = FALSE
         /\ Iterate(r, r.sid, 0)

(* client.search returns: lines 49-66 *)
SearchReturns ==
    /\ pc = "await_search"
    /\ \E r \in Responses(1) :
         /\ resp' = r
         /\ received' = Append(received, r)
         /\ EnterLoop(r)
    /\ TrackHeld
    /\ UNCHANGED <<config, heap, query, clientError>>
    /\ TrackRequests({"search"})

(* client.search raises: the error leaves scan, which is outside the try *)
SearchRaises ==
    /\ pc = "await_search"
    /\ \E e \in TransportErrors : clientError' = e /\ raised' = Exc(e, "search")
    /\ pc' = "done"
    /\ status' = "raised"
    /\ UNCHANGED <<config, heap, query, resp, scroll_id, first_run, idx, calls,
                   emitted, received, log, clearState, lastHeld>>
    /\ TrackRequests({"search"})

(* The consumer's next __anext__ while suspended at the yield of line 66 *)
AnextResume ==
    /\ pc = "yield"
    /\ Iterate(resp, scroll_id, idx)
    /\ TrackHeld
    /\ UNCHANGED <<config, heap, query, resp, first_run, received, clientError>>
    /\ TrackRequests({})

(* client.scroll returns: line 63, then the batch *)
ScrollReturns ==
    /\ pc = "await_scroll"
    /\ \E r \in Responses(Len(received) + 1) :
         /\ resp' = r
         /\ received' = Append(received, r)
         /\ Iterate(r, scroll_id, 0)
    /\ TrackHeld
    /\ UNCHANGED <<config, heap, query, first_run, clientError>>
    /\ TrackRequests({"scroll"})

\* ScrollRaises with the error taken for the end of the scroll
ScrollRaisesSwallowed ==
    /\ pc = "await_scroll"
    /\ \E e \in TransportErrors :
         /\ clientError' = e
         /\ Finally(scroll_id, "returned", NoExc)
    /\ UNCHANGED <<config, heap, query, resp, first_run, received, log, lastHeld>>
    /\ TrackRequests({"scroll"})

(* client.scroll raises inside the try *)
ScrollRaises ==
    /\ pc = "await_scroll"
    /\ \E e \in TransportErrors :
         /\ clientError' = e
         /\ Finally(scroll_id, "raised", Exc(e, "scroll"))
    /\ UNCHANGED <<config, heap, query, resp, first_run, received, log, lastHeld>>
    /\ TrackRequests({"scroll"})

\* Aclose with the yield outside the try: no finally block runs
AcloseNoFinally ==
    /\ pc \in {"yield", "start"}
    /\ pc' = "done"
    /\ status' = "closed"
    /\ UNCHANGED <<scroll_id, calls, clearState, raised, emitted, idx>>
    /\ UNCHANGED <<config, heap, query, resp, first_run, received, log, lastHeld,
                   clientError>>
    /\ TrackRequests({})

(* The consumer closes the generator: GeneratorExit at the yield of line   *)
(* 66, or a generator that never ran.                                      *)
Aclose ==
    /\ \/ /\ pc = "yield"
          /\ Finally(scroll_id, "closed", NoExc)
       \/ /\ pc = "start"
          /\ pc' = "done"
          /\ status' = "closed"
          /\ UNCHANGED <<scroll_id, calls, clearState, raised, emitted, idx>>
    /\ UNCHANGED <<config, heap, query, resp, first_run, received, log, lastHeld,
                   clientError>>
    /\ TrackRequests({})

(* The consuming task is cancelled while scan awaits the client *)
Cancel ==
    /\ \/ /\ pc = "await_search"
          /\ pc' = "done"
          /\ status' = "raised"
          /\ raised' = Exc("CancelledError", "search")
          /\ UNCHANGED <<scroll_id, calls, clearState, emitted, idx>>
       \/ /\ pc = "await_scroll"
          /\ Finally(scroll_id, "raised", Exc("CancelledError", "scroll"))
    /\ UNCHANGED <<config, heap, query, resp, first_run, received, log, lastHeld,
                   clientError>>
    /\ TrackRequests({"search", "scroll"})

\* ClearScrollCompletes with the request awaited in the finally block: its
\* error replaces the outcome
ClearScrollCompletesAwaited ==
    /\ clearState = "pending"
    /\ \E res \in ClearResults :
         /\ clearState' = res
         /\ IF res = "error"
            THEN status' = "raised" /\ raised' = Exc("TransportError", "clear_scroll")
            ELSE UNCHANGED <<status, raised>>
    /\ UNCHANGED <<config, heap, query, resp, scroll_id, first_run, idx, pc,
                   calls, emitted, received, log, lastHeld, clientError>>
    /\ TrackRequests({"clear_scroll"})

(* The clear_scroll request of line 87 ends; scan never awaits it *)
ClearScrollCompletes ==
    /\ clearState = "pending"
    /\ clearState' \in ClearResults
    /\ UNCHANGED <<config, heap, query, resp, scroll_id, first_run, idx, pc,
                   status, raised, calls, emitted, received, log, lastHeld,
                   clientError>>
    /\ TrackRequests({"clear_scroll"})

Next ==
    \/ AnextStart
    \/ SearchReturns
    \/ SearchRaises
    \/ AnextResume
    \/ ScrollReturns
    \/ ScrollRaises
    \/ Aclose
    \/ Cancel
    \/ ClearScrollCompletes

Spec == Init /\ [][Next]_vars

\* Spec with the consumer pulling for as long as the generator is suspended
\* at a yield, and the client answering every search and scroll request
LiveSpec ==
    /\ Spec
    /\ WF_vars(AnextStart \/ AnextResume)
    /\ WF_vars(SearchReturns \/ SearchRaises \/ ScrollReturns \/ ScrollRaises)

----------------------------------------------------------------------------
TypeOK ==
    /\ pc \in {"start", "await_search", "yield", "await_scroll", "done"}
    /\ status \in {"active", "returned", "raised", "closed"}
    /\ (pc = "done") = (status # "active")
    /\ scroll_id \in ScrollIds \cup {None, Unbound}
    /\ clearState \in ClearResults \cup {"none", "pending"}
    /\ idx \in 0..(MaxHits + 1)

----------------------------------------------------------------------------
(* Properties *)

ClearCalls == CallsOf("clear_scroll")
ScrollCalls == CallsOf("scroll")
SearchCalls == CallsOf("search")

RECURSIVE ConcatHits(_)
ConcatHits(rs) == IF rs = <<>> THEN <<>> ELSE rs[1].hits \o ConcatHits(Tail(rs))

LastResp == received[Len(received)]
LastCall == calls[Len(calls)]

\* the generator ended after it had gone through the shard check of the
\* last response: it was neither closed nor cut by an error of the client
EndedAfterShardCheck ==
    /\ pc = "done"
    /\ received # <<>>
    /\ received[1].sid # None
    /\ status # "closed"
    /\ clientError = None
    /\ raised.exc # "CancelledError"

\* C1, as claimed: with clear_scroll set, every run that held a scroll
\* identifier and has ended (normal end, error, cancellation) has issued
\* exactly one clear_scroll call, naming the last identifier held.
C1_ClearOnEveryExit ==
    (pc = "done" /\ clear_scroll /\ lastHeld # None) =>
        /\ Len(ClearCalls) = 1
        /\ ClearCalls[1].scroll_id = lastHeld

\* C1, amended: no clear_scroll call is issued before the generator ends;
\* with clear_scroll set, a run that ends with scroll_id bound to an
\* identifier has issued exactly one clear_scroll call, as its last call,
\* naming that identifier, whatever the exit (normal end, error, close,
\* cancellation); a run that ends with no identifier bound has issued none.
C1_ClearWhenIdHeldAtExit ==
    /\ pc # "done" => ClearCalls = <<>>
    /\ (pc = "done" /\ clear_scroll) =>
         IF Truthy(scroll_id)
         THEN /\ Len(ClearCalls) = 1
              /\ LastCall.op = "clear_scroll"
              /\ LastCall.scroll_id = scroll_id
              /\ scroll_id = lastHeld
         ELSE ClearCalls = <<>>

\* C1 witness: a run ended by an error inside the loop, after two
\* responses, with the clear_scroll call made.
C1_Witness ==
    /\ pc = "done" /\ clear_scroll /\ status = "raised"
    /\ Len(received) = 2
    /\ Len(ClearCalls) = 1

\* C2, as claimed: every scan that ends normally, with no failed shards,
\* has emitted the hits of all responses received, in arrival order.
C2_EmitsAllHits ==
    (status = "returned" /\ \A k \in 1..Len(received) : received[k].failed = 0)
        => emitted = ConcatHits(received)

\* C2, amended: every scan whose initial response carries a scroll
\* identifier and that ends normally, with no failed shards, has emitted the
\* hits of all responses received, in arrival order, none dropped,
\* duplicated or reordered.
C2_EmitsAllHitsWhenScrollIdGiven ==
    ( /\ status = "returned"
      /\ \A k \in 1..Len(received) : received[k].failed = 0
      /\ received[1].sid # None )
        => emitted = ConcatHits(received)

\* C2 witness: a normal end after three responses, two of them with hits.
C2_Witness ==
    /\ status = "returned"
    /\ Len(received) = 3
    /\ Len(emitted) >= 3

\* C3: when the initial response carries no scroll identifier, scan ends
\* at once with nothing emitted, no scroll call and no clear_scroll call,
\* whatever clear_scroll is and whatever hits the response holds.
C3_NoScrollIdNoOutput ==
    (received # <<>> /\ received[1].sid = None) =>
        /\ pc = "done" /\ status = "returned"
        /\ emitted = <<>>
        /\ ScrollCalls = <<>>
        /\ ClearCalls = <<>>
        /\ Len(calls) = 1

\* C3 witness: an initial response with hits and no identifier, clear_scroll
\* set.
C3_Witness ==
    /\ received # <<>> /\ received[1].sid = None
    /\ Len(received[1].hits) > 0
    /\ clear_scroll
    /\ pc = "done"

\* C4, as claimed: with raise_on_error set, a response with failed shards
\* ends the scan with ScanError, after all hits of that response were
\* emitted, and no scroll call follows it.
C4_FailedShardsRaiseScanError ==
    (raise_on_error /\ EndedAfterShardCheck /\ LastResp.failed # 0) =>
        /\ status = "raised"
        /\ raised.exc = "ScanError"
        /\ emitted = ConcatHits(received)
        /\ Len(ScrollCalls) = Len(received) - 1

\* C5, as claimed: with raise_on_error unset, a response with failed shards
\* raises nothing: one warning is logged for it and the scan goes on as for
\* a response without failures.
C5_FailedShardsWarnAndContinue ==
    ~raise_on_error =>
        /\ (status = "raised" => clientError # None \/ raised.exc = "CancelledError")
        /\ (EndedAfterShardCheck =>
              Len(log) = Cardinality({k \in 1..Len(received) : received[k].failed # 0}))

\* C6: with clear_scroll unset, no clear_scroll call is ever issued.
C6_NoClearWhenDisabled ==
    ~clear_scroll => (ClearCalls = <<>> /\ clearState = "none")

\* C6 witness: exits with an identifier held and clear_scroll unset, here an
\* error raised by a scroll call.
C6_Witness ==
    /\ ~clear_scroll
    /\ pc = "done" /\ status = "raised" /\ clientError # None
    /\ Truthy(scroll_id)

\* C7: with clear_scroll set, a generator closed while suspended at the
\* yield of a hit, of the first or of a later batch, has issued the
\* clear_scroll call, for the identifier it held.
C7_ClearOnClose ==
    (status = "closed" /\ emitted # <<>> /\ clear_scroll) =>
        /\ Len(ClearCalls) = 1
        /\ LastCall.op = "clear_scroll"
        /\ LastCall.scroll_id = lastHeld

\* C7 witness: closed at a yield of the second batch.
C7_Witness ==
    /\ status = "closed" /\ clear_scroll
    /\ Len(received) = 2
    /\ emitted # <<>> /\ emitted[Len(emitted)][1] = 2
    /\ Len(ClearCalls) = 1

\* C8, as claimed: an error raised by search or scroll is delivered
\* unchanged and, with clear_scroll set, the clear_scroll call is issued.
C8_ClientErrorTriggersClear ==
    clientError # None =>
        /\ status = "raised" /\ raised.exc = clientError
        /\ clear_scroll => Len(ClearCalls) = 1

\* C8, amended: an error raised by search or scroll ends the scan with that
\* same error.  After an error of scroll the clear_scroll call is issued
\* when clear_scroll is set (one call, naming the identifier held); after an
\* error of search no clear_scroll call is issued, as no identifier is held.
C8_ClientErrorPropagates ==
    clientError # None =>
        /\ pc = "done" /\ status = "raised" /\ raised.exc = clientError
        /\ IF raised.arg = "scroll" /\ clear_scroll
           THEN /\ Len(ClearCalls) = 1
                /\ LastCall.op = "clear_scroll"
                /\ LastCall.scroll_id = lastHeld
           ELSE ClearCalls = <<>>

\* C8 witness: scroll raised, the error reached the caller and the
\* clear_scroll call was made.
C8_Witness ==
    /\ clientError # None /\ raised.arg = "scroll"
    /\ raised.exc = clientError
    /\ clear_scroll /\ Len(ClearCalls) = 1

\* C9: the end of the clear_scroll request, a tolerated 404 or any error
\* included, leaves what the caller has seen as it was: the outcome, the
\* exception and the hits.
C9_ClearFailureKeepsOutcome ==
    [][ (clearState = "pending" /\ clearState' # "pending") =>
          /\ status' = status
          /\ raised' = raised
          /\ emitted' = emitted
          /\ pc' = pc ]_vars

\* C9 witness: the clear_scroll request failed and the scan's outcome is
\* the error it ended with.
C9_Witness ==
    /\ clearState = "error"
    /\ status = "raised" /\ raised.exc = clientError

\* C10: with preserve_order unset, the body of the search call is a dict
\* other than the caller's, equal to the caller's query (or to an empty one)
\* with sort set to '_doc', and the caller's dict is as it was; with
\* preserve_order set, the body is the caller's query itself, unmodified.
C10_QueryCopied ==
    SearchCalls # <<>> =>
        /\ Len(SearchCalls) = 1
        /\ caller # None => heap[caller] = given
        /\ IF preserve_order
           THEN /\ SearchCalls[1].ref = caller
                /\ SearchCalls[1].body = given
           ELSE /\ SearchCalls[1].ref \notin {caller, None}
                /\ SearchCalls[1].body = SetItem(given, "sort", "_doc")

\* C10 witness: a caller's query with a sort entry of its own, preserve_order
\* unset, the search call made.
C10_Witness ==
    /\ SearchCalls # <<>>
    /\ ~preserve_order
    /\ caller # None /\ "sort" \in DOMAIN given
    /\ given["sort"] # "_doc"

\* the scenario of C11: pages [A,B] with s1, [C] with s2, then [] with no
\* identifier, no shard failed
C11_Scenario ==
    received = << [sid |-> "s1", hits |-> HitsOf(1, 2), failed |-> 0],
                  [sid |-> "s2", hits |-> HitsOf(2, 1), failed |-> 0],
                  [sid |-> None, hits |-> <<>>, failed |-> 0] >>

\* C11, as claimed: in the scenario, with clear_scroll set, the output is
\* [A,B,C], two scroll calls are made and one clear_scroll call, with s2.
C11_ClearsLastIdBeforeNone ==
    (C11_Scenario /\ clear_scroll) =>
        /\ emitted = ConcatHits(received)
        /\ Len(ScrollCalls) = 2
        /\ Len(ClearCalls) = 1
        /\ ClearCalls[1].scroll_id = "s2"

\* C11, amended: when the terminating response carries no scroll
\* identifier, scroll_id is None in the finally block and no clear_scroll
\* call is made; in the scenario the output is [A,B,C], the two scroll
\* calls pass s1 and s2, and there is no clear_scroll call.
C11_NoClearAfterResponseWithoutId ==
    /\ (EndedAfterShardCheck /\ status = "returned" /\ LastResp.sid = None) =>
          (scroll_id = None /\ ClearCalls = <<>>)
    /\ C11_Scenario =>
          /\ pc = "done" /\ status = "returned"
          /\ emitted = <<<<1, 1>>, <<1, 2>>, <<2, 1>>>>
          /\ Len(ScrollCalls) = 2
          /\ ScrollCalls[1].scroll_id = "s1" /\ ScrollCalls[2].scroll_id = "s2"
          /\ ClearCalls = <<>>

\* C11 witness: the scenario, run with clear_scroll set.
C11_Witness == C11_Scenario /\ clear_scroll /\ lastHeld = "s2"

\* C12: the k-th scroll call is made after the k-th response and passes
\* the identifier of that response, the one immediately before it; the
\* identifier of an older response is not passed again.
C12_ScrollPassesLatestId ==
    /\ Len(ScrollCalls) <= Len(received)
    /\ Len(ScrollCalls) >= Len(received) - 1
    /\ \A k \in 1..Len(ScrollCalls) : ScrollCalls[k].scroll_id = received[k].sid
    /\ pc = "await_scroll" => scroll_id = LastResp.sid

\* C12 witness: two scroll calls, the responses before them carrying
\* different identifiers.
C12_Witness ==
    /\ Len(ScrollCalls) = 2
    /\ received[1].sid = "s1" /\ received[2].sid = "s2"

\* C13: at most one client request of the session is outstanding at any
\* moment, and a request is issued only when none is outstanding.
C13_OneRequestInFlight ==
    /\ Cardinality(inflight) <= 1
    /\ ("search" \in inflight) = (pc = "await_search")
    /\ ("scroll" \in inflight) = (pc = "await_scroll")
    /\ ("clear_scroll" \in inflight) = (clearState = "pending")

\* C13 witness: search, scroll and clear_scroll were issued one after the
\* other, and the clear_scroll request is the one outstanding.
C13_Witness ==
    /\ Len(calls) = 3
    /\ Len(ScrollCalls) = 1
    /\ inflight = {"clear_scroll"}

\* C14, as claimed: the scan reports its end only after the response to
\* the clear_scroll request has arrived.
C14_EndWaitsForClearScroll ==
    pc = "done" => "clear_scroll" \notin inflight

\* a response that ends the scroll: no hits, or no identifier
Terminal(r) == r.sid = None \/ r.hits = <<>>

\* C15, as claimed: a response with no hits or no identifier, which did not
\* trigger ScanError, ends the loop normally, and no scroll call follows it:
\* the scroll calls are as many as the responses before it.
C15_LoopEndsAtTerminalResponse ==
    /\ \A k \in 1..(Len(received) - 1) : ~Terminal(received[k])
    /\ ( /\ EndedAfterShardCheck
         /\ Terminal(LastResp)
         /\ (LastResp.failed = 0 \/ ~raise_on_error) ) =>
            /\ status = "returned"
            /\ Len(ScrollCalls) = Len(received) - 1

\* C16: when the consumer keeps pulling and the client answers every
\* request, the scan ends; and it ends at the first response with no hits
\* or no identifier: no response is received after such a one.
C16_Terminates ==
    /\ <>(pc = "done")
    /\ [](\A k \in 1..(Len(received) - 1) : ~Terminal(received[k]))
    /\ []((received # <<>> /\ Terminal(LastResp) /\ pc # "yield") => pc = "done")

\* C16 witness: the scan ended at a response with no hits, its third.
C16_Witness ==
    /\ pc = "done"
    /\ Len(received) = 3
    /\ LastResp.hits = <<>>
    /\ Len(emitted) = 2 * MaxHits

IsPrefix(a, b) == Len(a) <= Len(b) /\ SubSeq(b, 1, Len(a)) = a

\* C17: at every point of every run the hits emitted are a prefix of the
\* hits of the responses received, in arrival order, and a step only ever
\* appends to what was emitted.
C17_EmittedIsPrefix ==
    /\ [](IsPrefix(emitted, ConcatHits(received)))
    /\ [][IsPrefix(emitted, emitted')]_vars

\* C17 witness: a run cut by an error of scroll in the middle of the
\* stream, hits of two responses emitted before.
C17_Witness ==
    /\ status = "raised" /\ clientError # None
    /\ Len(received) = 2
    /\ Len(emitted) >= 2
    /\ emitted[Len(emitted)][1] = 2

\* the identifier passed in the last scroll call
LastSentId == ScrollCalls[Len(ScrollCalls)].scroll_id

\* C18, as claimed: while the hits of a scroll response are emitted and its
\* shards checked, scroll_id is still the identifier sent in that scroll
\* request; a ScanError raised for that response carries it, and the
\* clear_scroll call after that error, or after a close during those hits,
\* names it.
C18_ErrorAndClearNameSentId ==
    /\ (pc = "yield" /\ Len(received) >= 2) => scroll_id = LastSentId
    /\ (status = "closed" /\ Len(received) >= 2 /\ clear_scroll) =>
          (LastCall.op = "clear_scroll" /\ LastCall.scroll_id = LastSentId)
    /\ ( /\ EndedAfterShardCheck
         /\ Len(received) >= 2
         /\ LastResp.failed # 0
         /\ raise_on_error ) =>
            /\ raised = Exc("ScanError", LastSentId)
            /\ clear_scroll =>
                 (LastCall.op = "clear_scroll" /\ LastCall.scroll_id = LastSentId)

\* C19: an initial response with an identifier, no hits and no failed
\* shard ends the scan at once: nothing emitted, no scroll call, and one
\* clear_scroll call naming that identifier exactly when clear_scroll is
\* set.
C19_EmptyFirstPage ==
    ( /\ received # <<>>
      /\ received[1].sid # None
      /\ received[1].hits = <<>>
      /\ received[1].failed = 0 ) =>
         /\ pc = "done" /\ status = "returned"
         /\ emitted = <<>>
         /\ ScrollCalls = <<>>
         /\ Len(received) = 1
         /\ IF clear_scroll
            THEN /\ Len(ClearCalls) = 1
                 /\ ClearCalls[1].scroll_id = received[1].sid
            ELSE ClearCalls = <<>>

\* C19 witness: such a first response, with clear_scroll set and the
\* clear_scroll call made.
C19_Witness ==
    /\ received # <<>>
    /\ received[1].sid = "s2" /\ received[1].hits = <<>> /\ received[1].failed = 0
    /\ clear_scroll
    /\ Len(calls) = 2
====
